---- MODULE Spec2Model ----
(***************************************************************************)
(* A model of upm_lib (src/upm_lib/src/lib.rs): the registry loader        *)
(* (get_managers, read_config_dirs, PackageManager::from_file), the        *)
(* Version type (from_str, set_representation, is_semantic, set_semantic,  *)
(* PartialEq) and the commands of a PackageManager (make_command,          *)
(* run_command, exists and the wrappers).                                  *)
(*                                                                         *)
(* Strings are TLA+ strings, read character by character with SubSeq and   *)
(* joined with \o.  Option<T> is a tuple: <<>> is None, <<x>> is Some(x).  *)
(* Result<T,E> and a panic are records tagged "Ok", "Err" and "Panic".     *)
(***************************************************************************)
EXTENDS Integers, Sequences, FiniteSets, TLC

VARIABLES
  fs,      \* the file system: what read_dir and File::open find
  ret,     \* the last call of the registry loader: its arguments and outcome
  v,       \* the Version values under test
  vret,    \* the last call of a Version operation: its arguments and outcome
  pm,      \* the PackageManager the commands are called on
  cret,    \* the last call of a command operation: its arguments and outcome
  proc     \* the process the command operation launched, as the system has it

vars == <<fs, ret, v, vret, pm, cret, proc>>

(***************************************************************************)
(* Bounds and input sets                                                   *)
(***************************************************************************)
\* the longest list of directories handed to read_config_dirs
MaxDirs == 2

\* the largest PATCH number of the generated version strings 1.2.PATCH
MaxPatch == 4

ManagerNames == {"cargo", "npm"}

Dirs == {"/etc/upm", "/home/u/.upm"}

\* what a directory may hold for a manager name: no entry, a file n.txt with all
\* six keys (a valid description under another suffix), a file with all six keys, a file with the version key alone, a file
\* with every key but version, a file that is not TOML, a file whose install value
\* is an integer, a file that cannot be opened
FileKinds ==
  {"absent", "nottoml", "full", "minimal", "noversion", "garbage", "nonstring",
   "unreadable"}

\* the kinds the directories of the merge are drawn from
MergeKinds == {"absent", "nottoml", "full", "noversion", "nonstring"}

None == <<>>

Some(x) == <<x>>

Ok(x) == [tag |-> "Ok", val |-> x]

Err(msg) == [tag |-> "Err", msg |-> msg]

Panic(msg) == [tag |-> "Panic", msg |-> msg]

(***************************************************************************)
(* String helpers (std::str, std::path)                                    *)
(***************************************************************************)
CharAt(s, i) == IF i >= 1 /\ i <= Len(s) THEN SubSeq(s, i, i) ELSE ""

\* str::ends_with
ends_with(s, suffix) ==
  /\ Len(suffix) <= Len(s)
  /\ SubSeq(s, Len(s) - Len(suffix) + 1, Len(s)) = suffix

\* str::starts_with
starts_with(s, prefix) ==
  /\ Len(prefix) <= Len(s)
  /\ SubSeq(s, 1, Len(prefix)) = prefix

\* the position of the last occurrence of character c in s at or before i, 0 if none
RECURSIVE LastIndexOf(_, _, _)
LastIndexOf(s, c, i) ==
  IF i = 0 THEN 0
  ELSE IF CharAt(s, i) = c THEN i
  ELSE LastIndexOf(s, c, i - 1)

\* Path::file_name: the last component of the path
file_name(path) ==
  SubSeq(path, LastIndexOf(path, "/", Len(path)) + 1, Len(path))

\* Path::file_stem: the file name without its extension; a name with no dot, or
\* whose only dot is its first character, is its own stem
file_stem(path) ==
  LET name == file_name(path)
      dot  == LastIndexOf(name, ".", Len(name))
  IN  IF dot <= 1 THEN name ELSE SubSeq(name, 1, dot - 1)

\* Path::parent: the path without its last component
parent(path) ==
  LET slash == LastIndexOf(path, "/", Len(path))
  IN  IF slash = 0 THEN "" ELSE SubSeq(path, 1, slash - 1)

\* Path::join / DirEntry::path
join(dir, name) == dir \o "/" \o name

\* every path the file systems of the model can hold
KnownPaths ==
  {join(d, n \o ext) : d \in Dirs, n \in ManagerNames, ext \in {".toml", ".txt"}}

\* file_name, file_stem and parent of every known path, computed once
PathParts ==
  [p \in KnownPaths |->
    [file_name |-> file_name(p), file_stem |-> file_stem(p), parent |-> parent(p)]]

NameOf(path) ==
  IF path \in KnownPaths THEN PathParts[path].file_name ELSE file_name(path)

StemOf(path) ==
  IF path \in KnownPaths THEN PathParts[path].file_stem ELSE file_stem(path)

ParentOf(path) ==
  IF path \in KnownPaths THEN PathParts[path].parent ELSE parent(path)

(***************************************************************************)
(* The file system and the TOML reader, as from_file and get_managers see  *)
(* them                                                                    *)
(***************************************************************************)
\* A directory that cannot be enumerated holds nothing the loader can see.
DirStates ==
  {[readable |-> TRUE, files |-> f] : f \in [ManagerNames -> MergeKinds]}
    \cup {[readable |-> FALSE, files |-> [n \in ManagerNames |-> "absent"]]}

FileSystems == [Dirs -> DirStates]

\* the name of the entry a directory holds for manager name n
EntryName(n, kind) == IF kind = "nottoml" THEN n \o ".txt" ELSE n \o ".toml"

\* std::fs::read_dir: the names of the direct entries, or an error
read_dir(directory) ==
  IF directory \in DOMAIN fs /\ fs[directory].readable
    THEN Ok({EntryName(n, fs[directory].files[n]) :
               n \in {m \in ManagerNames : fs[directory].files[m] # "absent"}})
    ELSE Err("cannot read directory")

\* what the file at path holds
KindAt(path) ==
  LET d == ParentOf(path)
      hit == IF d \in DOMAIN fs /\ fs[d].readable
               THEN {n \in ManagerNames :
                       /\ fs[d].files[n] # "absent"
                       /\ EntryName(n, fs[d].files[n]) = NameOf(path)}
               ELSE {}
  IN  IF hit = {} THEN "absent" ELSE fs[d].files[CHOOSE n \in hit : TRUE]

StringValue(text) == [type |-> "String", str |-> text]

IntegerValue == [type |-> "Integer"]

CommandKeys == {"version", "install", "install_local", "remove", "remove_local", "search"}

\* the table of a file of the given kind; the command text it gives for a key
\* names the file's directory and stem, so every file of every directory gives
\* its own
TomlTable(kind, dir, stem) ==
  LET keys == CASE kind = "full" -> CommandKeys
                [] kind = "minimal" -> {"version"}
                [] kind = "noversion" -> CommandKeys \ {"version"}
                [] kind = "nonstring" -> {"version", "install"}
                [] OTHER -> {}
  IN  [k \in keys |->
        IF kind = "nonstring" /\ k = "install"
          THEN IntegerValue
          ELSE StringValue(stem \o " " \o k \o " --root " \o dir)]

\* File::open, read_to_string and content.parse::<Value>(): the table of the
\* file at path, or the error of the first step that fails
parse_toml(path) ==
  LET kind == KindAt(path)
  IN  IF kind = "absent" THEN Err("No such file or directory")
      ELSE IF kind = "unreadable" THEN Err("Permission denied")
      ELSE IF kind \in {"full", "minimal", "noversion", "nonstring"}
        THEN Ok(TomlTable(kind, ParentOf(path), StemOf(path)))
      ELSE IF kind = "nottoml" THEN Ok(TomlTable("full", ParentOf(path), StemOf(path)))
      ELSE Err("invalid TOML")

\* toml::Value::get
get(resource, key) == IF key \in DOMAIN resource THEN Some(resource[key]) ELSE None

\* toml::Value::as_str
as_str(value) == IF value.type = "String" THEN Some(value.str) ELSE None

(***************************************************************************)
(* PackageManager::from_file                                               *)
(***************************************************************************)
\* Some(s) => Some(String::from(s.as_str().unwrap())), None => None: a value
\* that is not a string panics in unwrap
OptionalValue(value) ==
  IF value = None THEN Ok(None)
  ELSE IF as_str(value[1]) = None
    THEN Panic("called Option::unwrap() on a None value")
    ELSE Ok(Some(as_str(value[1])[1]))

OptionalCommand(resource, key) == OptionalValue(get(resource, key))

\* the struct literal that ends from_file, reached when no value panicked
BuildManager(name, version, config_dir, install, install_local, remove, remove_local, search) ==
  IF \E r \in {install, install_local, remove, remove_local, search} : r.tag = "Panic"
    THEN Panic("called Option::unwrap() on a None value")
    ELSE Ok([name |-> name,
             version |-> version,
             config_dir |-> config_dir,
             install |-> install.val,
             install_local |-> install_local.val,
             remove |-> remove.val,
             remove_local |-> remove_local.val,
             search |-> search.val])

\* from_file once the file is parsed: the version key first, then the five
\* optional keys
FromResource(resource, name, config_dir) ==
  IF get(resource, "version") = None
    THEN Err("Package manager version command not provided in config")
  ELSE IF as_str(get(resource, "version")[1]) = None
    THEN Panic("called Option::unwrap() on a None value")
  ELSE BuildManager(name, as_str(get(resource, "version")[1])[1], config_dir,
                    OptionalCommand(resource, "install"),
                    OptionalCommand(resource, "install_local"),
                    OptionalCommand(resource, "remove"),
                    OptionalCommand(resource, "remove_local"),
                    OptionalCommand(resource, "search"))

\* the ? on File::open, read_to_string and parse: the error is returned
FromContent(content, path) ==
  IF content.tag = "Err" THEN content
  ELSE FromResource(content.val, StemOf(path), ParentOf(path))

from_file(path) == FromContent(parse_toml(path), path)

\* a derived PartialEq, over every field, in place of the one by name
PackageManagerEq_AllFields(a, b) == a = b

\* impl PartialEq / Hash for PackageManager: the name alone
PackageManagerEq(a, b) == a.name = b.name

(***************************************************************************)
(* ManagerSpecifier and get_managers                                       *)
(***************************************************************************)
Excludes(set) == [variant |-> "Excludes", set |-> set]

Includes(set) == [variant |-> "Includes", set |-> set]

Empty == [variant |-> "Empty", set |-> {}]

Specifiers ==
  {Empty} \cup {Excludes(s) : s \in SUBSET ManagerNames}
          \cup {Includes(s) : s \in SUBSET ManagerNames}

\* the match on *names: TRUE when the entry is skipped
Skipped(names, stem) ==
  CASE names.variant = "Excludes" -> stem \in names.set
    [] names.variant = "Includes" -> stem \notin names.set
    [] OTHER -> FALSE

\* result.push(manager.unwrap()) in place of the match: an error of from_file
\* panics
PushManager_UnwrapsError(manager, result) ==
  IF manager.tag = "Ok" THEN Ok(Append(result, manager.val))
  ELSE Panic("called Result::unwrap() on an Err value")

\* match manager { Ok(man) => result.push(man), Err(_e) => {} }; a panic of
\* from_file unwinds through the loop
PushManager(manager, result) ==
  IF manager.tag = "Panic" THEN manager
  ELSE IF manager.tag = "Ok" THEN Ok(Append(result, manager.val))
  ELSE Ok(result)

\* the suffix of the entry's name never tested
ScanEntry_AnySuffix(directory, name, names, result) ==
  IF Skipped(names, StemOf(join(directory, name)))
    THEN Ok(result)
    ELSE PushManager(from_file(join(directory, name)), result)

\* the body of the loop over the entries, for the entry called name
ScanEntry(directory, name, names, result) ==
  IF ~ends_with(name, ".toml") \/ Skipped(names, StemOf(join(directory, name)))
    THEN Ok(result)
    ELSE PushManager(from_file(join(directory, name)), result)

\* the loop over the entries, from entry i of the enumeration on
RECURSIVE ScanEntries(_, _, _, _, _)
RECURSIVE ScanRest(_, _, _, _, _)
ScanEntries(directory, entries, i, names, result) ==
  IF i > Len(entries) THEN Ok(result)
  ELSE ScanRest(directory, entries, i, names,
                ScanEntry(directory, entries[i], names, result))

\* the entries after entry i, given what entry i made of the result
ScanRest(directory, entries, i, names, step) ==
  IF step.tag = "Panic" THEN step
  ELSE ScanEntries(directory, entries, i + 1, names, step.val)

\* the sequences that hold every element of S once
Orderings(S) ==
  {s \in [1..Cardinality(S) -> S] : \A i, j \in 1..Cardinality(S) : i # j => s[i] # s[j]}

\* get_managers, with the order in which read_dir yields the entries
get_managers(directory, names, entries) ==
  IF read_dir(directory).tag = "Ok"
    THEN ScanEntries(directory, entries, 1, names, <<>>)
    ELSE Ok(<<>>)

\* the orders in which read_dir may yield the entries of a directory
Enumerations(directory) ==
  IF read_dir(directory).tag = "Ok" THEN Orderings(read_dir(directory).val) ELSE {<<>>}

(***************************************************************************)
(* read_config_dirs                                                        *)
(***************************************************************************)
\* HashSet::contains, by the name
contains(result, manager) == \E m \in result : PackageManagerEq(m, manager)

\* HashSet::replace in place of the guarded insert: the last directory wins
InsertIfAbsent_LastWins(result, manager) ==
  {m \in result : m.name # manager.name} \cup {manager}

\* the body of the inner loop: insert the manager unless result holds its name
InsertIfAbsent(result, manager) ==
  IF ~contains(result, manager) THEN result \cup {manager} ELSE result

\* the inner loop, from manager i of tmp on
RECURSIVE InsertAll(_, _, _)
InsertAll(result, tmp, i) ==
  IF i > Len(tmp) THEN result
  ELSE InsertAll(InsertIfAbsent(result, tmp[i]), tmp, i + 1)

\* the loop over the directories, from directory i on; scans[i] is the order in
\* which directory i is enumerated
RECURSIVE MergeDirs(_, _, _, _, _)
RECURSIVE MergeRest(_, _, _, _, _, _)
MergeDirs(directories, exceptions, scans, i, result) ==
  IF i > Len(directories) THEN Ok(result)
  ELSE MergeRest(directories, exceptions, scans, i, result,
                 get_managers(directories[i], exceptions, scans[i]))

\* the match on tmp and the inner loop for directory i, then the directories
\* after it
MergeRest(directories, exceptions, scans, i, result, tmp) ==
  IF tmp.tag = "Panic" THEN tmp
  ELSE IF tmp.tag = "Err" THEN Panic("Couldn't get managers from directory")
  ELSE MergeDirs(directories, exceptions, scans, i + 1, InsertAll(result, tmp.val, 1))

read_config_dirs(directories, exceptions, scans) ==
  MergeDirs(directories, exceptions, scans, 1, {})

DirLists == UNION {[1..k -> Dirs] : k \in 0..MaxDirs}

(***************************************************************************)
(* The registry loader's calls                                             *)
(***************************************************************************)
NoCall == [op |-> "none"]

\* a call of get_managers: read_dir yields the entries in some order
GetManagers ==
  /\ ret = NoCall
  /\ \E directory \in Dirs, names \in Specifiers :
    \E entries \in Enumerations(directory) :
      /\ ret' = [op |-> "get_managers", directory |-> directory, names |-> names,
                 out |-> get_managers(directory, names, entries)]
      /\ UNCHANGED <<fs, v, vret, pm, cret, proc>>

\* a call of read_config_dirs: each directory of the list is enumerated in some
\* order, and the HashSet is collected into the returned Vec in some order
ReadConfigDirs ==
  /\ ret = NoCall
  /\ \E directories \in DirLists, exceptions \in Specifiers :
    \E scans \in [1..Len(directories) -> UNION {Enumerations(d) : d \in Dirs}] :
      /\ \A i \in 1..Len(directories) : scans[i] \in Enumerations(directories[i])
      /\ LET out == read_config_dirs(directories, exceptions, scans)
         IN  \E return_value \in
                  (IF out.tag = "Ok" THEN {Ok(s) : s \in Orderings(out.val)} ELSE {out}) :
               ret' = [op |-> "read_config_dirs", directories |-> directories,
                       exceptions |-> exceptions, out |-> return_value]
      /\ UNCHANGED <<fs, v, vret, pm, cret, proc>>

NoVersions == <<>>

\* no PackageManager built yet
NoManager == <<>>

\* no process launched
NoProcess == [state |-> "none"]

Init ==
  /\ fs \in FileSystems
  /\ ret = NoCall
  /\ v = NoVersions
  /\ vret = NoCall
  /\ pm = NoManager
  /\ cret = NoCall
  /\ proc = NoProcess

Next == GetManagers \/ ReadConfigDirs

Spec == Init /\ [][Next]_vars

(***************************************************************************)
(* Version: the semantic-version regex                                     *)
(***************************************************************************)
Digits == {"0", "1", "2", "3", "4", "5", "6", "7", "8", "9"}

Letters ==
  {"a", "b", "c", "d", "e", "f", "g", "h", "i", "j", "k", "l", "m",
   "n", "o", "p", "q", "r", "s", "t", "u", "v", "w", "x", "y", "z",
   "A", "B", "C", "D", "E", "F", "G", "H", "I", "J", "K", "L", "M",
   "N", "O", "P", "Q", "R", "S", "T", "U", "V", "W", "X", "Y", "Z"}

\* the class [\dA-Za-z-]
LabelChars == Digits \cup Letters \cup {"-"}

\* a greedy run class+ from position i: the position after its last character
\* (i itself when the class matches nothing there)
RECURSIVE RunEnd(_, _, _)
RunEnd(text, i, class) ==
  IF CharAt(text, i) \in class THEN RunEnd(text, i + 1, class) ELSE i

\* [\dA-Za-z-]+(?:\.[\dA-Za-z-]+)* from position i, whose first run ends at e:
\* the position after the match, 0 when there is none
RECURSIVE LabelsEnd(_, _, _)
LabelsEnd(text, i, e) ==
  IF e = i THEN 0
  ELSE IF CharAt(text, e) = "." /\ RunEnd(text, e + 1, LabelChars) > e + 1
    THEN LabelsEnd(text, e + 1, RunEnd(text, e + 1, LabelChars))
    ELSE e

\* an optional group (?:<marker>(labels))? at position p: the position after it,
\* p when the group does not take part
OptionalEnd(text, p, marker) ==
  IF CharAt(text, p) = marker /\ LabelsEnd(text, p + 1, RunEnd(text, p + 1, LabelChars)) # 0
    THEN LabelsEnd(text, p + 1, RunEnd(text, p + 1, LabelChars))
    ELSE p

\* regex::Match: the searched text and the byte offsets of the match in it
Match(text, from, to) == [text |-> text, start |-> from - 1, end |-> to - 1]

\* the $ of the regex, and the groups 1 to 3 of a match
CapturesAtEnd(text, p1, p2, p3, p5) ==
  IF p5 = Len(text) + 1
    THEN Some(<<Match(text, 1, p1), Match(text, p1 + 1, p2), Match(text, p2 + 1, p3)>>)
    ELSE None

\* (\d+) for PATCH, then the optional prerelease and build groups
CapturesAfterPatch(text, p1, p2, p3) ==
  IF p3 > p2 + 1
    THEN CapturesAtEnd(text, p1, p2, p3, OptionalEnd(text, OptionalEnd(text, p3, "-"), "+"))
    ELSE None

\* \. and (\d+) for MINOR, then \.
CapturesAfterMinor(text, p1, p2) ==
  IF p2 > p1 + 1 /\ CharAt(text, p2) = "."
    THEN CapturesAfterPatch(text, p1, p2, RunEnd(text, p2 + 1, Digits))
    ELSE None

\* ^(\d+) for MAJOR, then \.
CapturesAfterMajor(text, p1) ==
  IF p1 > 1 /\ CharAt(text, p1) = "."
    THEN CapturesAfterMinor(text, p1, RunEnd(text, p1 + 1, Digits))
    ELSE None

(***************************************************************************)
(* One directory scanned, its files of every kind                          *)
(***************************************************************************)
ScanDir == "/etc/upm"

\* the file systems of the scans: ScanDir holds files of every kind, the other
\* directory cannot be enumerated
ScanFileSystems ==
  {[d \in Dirs |->
      IF d = ScanDir
        THEN [readable |-> TRUE, files |-> f]
        ELSE [readable |-> FALSE, files |-> [n \in ManagerNames |-> "absent"]]] :
     f \in [ManagerNames -> FileKinds]}

\* a call of PackageManager::from_file on a path of a directory
FromFile ==
  /\ ret = NoCall
  /\ \E path \in KnownPaths :
       /\ ret' = [op |-> "from_file", path |-> path, out |-> from_file(path)]
       /\ UNCHANGED <<fs, v, vret, pm, cret, proc>>

ScanInit ==
  /\ fs \in ScanFileSystems
  /\ ret = NoCall
  /\ v = NoVersions
  /\ vret = NoCall
  /\ pm = NoManager
  /\ cret = NoCall
  /\ proc = NoProcess

ScanNext == GetManagers \/ FromFile

ScanSpec == ScanInit /\ [][ScanNext]_vars

\* Regex::captures of get_semantic_regex(): None, or Some of the groups 1 to 3
captures(text) == CapturesAfterMajor(text, RunEnd(text, 1, Digits))

Digit(n) == SubSeq("0123456789", n + 1, n + 1)

\* the version strings of the model: 1.2.PATCH bare, with a prerelease and with
\* build metadata, and strings chosen for their shape
Representations ==
  {"1.2." \o Digit(patch) \o suffix :
     patch \in 3..MaxPatch, suffix \in {"", "-rc1", "+buildX"}}
    \cup {"", "0.1.2", "2.2.3", "1.3.3", "01.2.3", "1.2.3-rc1+buildX",
          "1.4rc2", "1.4rc3", "0.1.1-b@d"}

\* the strings is_semantic is asked about on its own: those of
\* tests::semantic_matching and strings that miss the pattern in one place
Candidates ==
  {"0.1.1", "0.1.1-prerelease", "0.1.1-prerelease.x.3", "0.1.1-pre-pre-release",
   "0.1.1+builddata", "0.1.1+build-data", "0.1.1+builddata.3",
   "0.1.1-prerelease+builddata", "10.20.30", "1.2.3-0A.b-c",
   "a.b.c", "1-1-1", "0.1.1-b@d", "0.1.1+b@d", "1.2", "1.2.3.4", "1..3", "1.2.x",
   "1,2,3", "v1.2.3", "1.2.3 ", "1.2.3-", "1.2.3-a..b", "1.2.3+", "1.2.3+a+b",
   "1.2.3-a_b", ""}

\* captures of every version string of the model, computed once
CapturesTable == [text \in Representations \cup Candidates |-> captures(text)]

CapturesOf(text) ==
  IF text \in DOMAIN CapturesTable THEN CapturesTable[text] ELSE captures(text)

\* Regex::is_match
is_match(text) == CapturesOf(text) # None

(***************************************************************************)
(* Version                                                                 *)
(***************************************************************************)
\* the pattern without its closing $: a match of some prefix is enough
is_semantic_Unanchored(representation) ==
  \E k \in 0..Len(representation) : is_match(SubSeq(representation, 1, k))

is_semantic(representation) == is_match(representation)

\* #[derive(Default)]
DefaultVersion == [representation |-> "", semantic |-> FALSE]

from_str(representation) ==
  [representation |-> representation, semantic |-> is_semantic(representation)]

\* the flag left as the Version had it
set_representation_KeepsFlag(self, val) ==
  [representation |-> val, semantic |-> self.semantic]

set_representation(self, val) ==
  [representation |-> val, semantic |-> is_semantic(val)]

\* the flag stored with no validation
set_semantic_Unchecked(self, val) ==
  [self |-> [self EXCEPT !.semantic = val], out |-> Ok(<<>>)]

\* the flag stored before the validation bails
set_semantic_AssignsFirst(self, val) ==
  IF val /\ ~is_semantic(self.representation)
    THEN [self |-> [self EXCEPT !.semantic = val],
          out |-> Err("Version does not match semantic structure")]
    ELSE [self |-> [self EXCEPT !.semantic = val], out |-> Ok(<<>>)]

\* set_semantic: the Version after the call and the Result returned
set_semantic(self, val) ==
  IF val /\ ~is_semantic(self.representation)
    THEN [self |-> self, out |-> Err("Version does not match semantic structure")]
    ELSE [self |-> [self EXCEPT !.semantic = val], out |-> Ok(<<>>)]

\* Captures::get(i) == Captures::get(i) for the groups 1 to 3: Option<Match>
\* against Option<Match>, by the derived PartialEq of Match (text, start, end)
GroupsEq(self_groups, other_groups) ==
  /\ self_groups[1] = other_groups[1]
  /\ self_groups[2] = other_groups[2]
  /\ self_groups[3] = other_groups[3]

\* the branch of eq for two semantic Versions; captures(..).unwrap() panics on a
\* representation the regex does not match
SemanticEq(self_captures, other_captures) ==
  IF self_captures = None \/ other_captures = None
    THEN Panic("called Option::unwrap() on a None value")
    ELSE Ok(GroupsEq(self_captures[1], other_captures[1]))

\* the flags never compared
eq_IgnoresFlags(self, other) ==
  IF self.semantic /\ other.semantic
    THEN SemanticEq(CapturesOf(self.representation), CapturesOf(other.representation))
    ELSE Ok(self.representation = other.representation)

\* the flags never compared, and the groups compared by the text they matched
eq_GroupTextNoFlags(self, other) ==
  IF self.semantic /\ other.semantic
    THEN LET s == CapturesOf(self.representation)[1]
             o == CapturesOf(other.representation)[1]
         IN  Ok(\A i \in 1..3 : SubSeq(s[i].text, s[i].start + 1, s[i].end)
                                  = SubSeq(o[i].text, o[i].start + 1, o[i].end))
    ELSE Ok(self.representation = other.representation)

\* impl PartialEq for Version
eq(self, other) ==
  IF self.semantic # other.semantic THEN Ok(FALSE)
  ELSE IF self.semantic /\ other.semantic
    THEN SemanticEq(CapturesOf(self.representation), CapturesOf(other.representation))
  ELSE Ok(self.representation = other.representation)

(***************************************************************************)
(* The calls on the Versions                                               *)
(***************************************************************************)
Slots == {1, 2}

\* Version::from_str builds the Version of a slot
FromStr ==
  \E self \in Slots, representation \in Representations :
    /\ v' = [v EXCEPT ![self] = from_str(representation)]
    /\ vret' = [op |-> "from_str", self |-> self, representation |-> representation]
    /\ UNCHANGED <<fs, ret, pm, cret, proc>>

\* Version::default builds the Version of a slot
Default ==
  \E self \in Slots :
    /\ v' = [v EXCEPT ![self] = DefaultVersion]
    /\ vret' = [op |-> "default", self |-> self]
    /\ UNCHANGED <<fs, ret, pm, cret, proc>>

\* set_representation; old is the Version as the call found it
SetRepresentation ==
  \E self \in Slots, val \in Representations :
    /\ v' = [v EXCEPT ![self] = set_representation(v[self], val)]
    /\ vret' = [op |-> "set_representation", self |-> self, val |-> val,
                old |-> v[self]]
    /\ UNCHANGED <<fs, ret, pm, cret, proc>>

\* set_semantic; old is the Version as the call found it
SetSemantic ==
  \E self \in Slots, val \in BOOLEAN :
    /\ v' = [v EXCEPT ![self] = set_semantic(v[self], val).self]
    /\ vret' = [op |-> "set_semantic", self |-> self, val |-> val,
                old |-> v[self], out |-> set_semantic(v[self], val).out]
    /\ UNCHANGED <<fs, ret, pm, cret, proc>>

\* v[1] == v[2]
Compare ==
  /\ vret' = [op |-> "eq", out |-> eq(v[1], v[2])]
  /\ UNCHANGED <<fs, ret, v, pm, cret, proc>>

\* Version::is_semantic asked about a string on its own
IsSemantic ==
  \E representation \in Candidates :
    /\ vret' = [op |-> "is_semantic", representation |-> representation,
                out |-> is_semantic(representation)]
    /\ UNCHANGED <<fs, ret, v, pm, cret, proc>>

\* one file system for the Versions to run beside
NoFiles ==
  [d \in Dirs |-> [readable |-> FALSE, files |-> [n \in ManagerNames |-> "absent"]]]

VersionInit ==
  /\ fs = NoFiles
  /\ ret = NoCall
  /\ v = [self \in Slots |-> DefaultVersion]
  /\ vret = NoCall
  /\ pm = NoManager
  /\ cret = NoCall
  /\ proc = NoProcess

VersionNext ==
  FromStr \/ Default \/ SetRepresentation \/ SetSemantic \/ Compare \/ IsSemantic

VersionSpec == VersionInit /\ [][VersionNext]_vars

(***************************************************************************)
(* The commands of a PackageManager                                        *)
(***************************************************************************)
\* the directories a descriptor may name: one as from_file derives it, one
\* written with its closing separator as in tests::cargo_exists
ConfigDirs == {"/etc/upm", "./test-files/"}

\* the command texts of the version field: a script beside the configuration
\* file, and a program with an argument after two spaces
VersionTemplates == {"./cargo/version.sh", "cargo  --version"}

\* the command texts of an optional field: none, a program with an argument, a
\* script beside the configuration file with an argument
Templates(key) == {None, Some("cargo " \o key), Some("./cargo/" \o key \o ".sh -y")}

\* the descriptors the commands are called on; install may also hold a text of
\* white space alone
Managers ==
  {[name |-> "cargo", version |-> version, config_dir |-> config_dir,
    install |-> install, install_local |-> install_local, remove |-> remove,
    remove_local |-> remove_local, search |-> search] :
     version \in VersionTemplates, config_dir \in ConfigDirs,
     install \in Templates("install") \cup {Some(" ")},
     install_local \in {None, Some("./cargo/install_local.sh -y")},
     remove \in Templates("remove"),
     remove_local \in {None, Some("cargo remove_local")},
     search \in Templates("search")}

\* the names run_command is called with: the six fields, the name uninstall()
\* passes, and a name of no field
CommandNames ==
  {"version", "install", "install_local", "remove", "remove_local", "search",
   "uninstall", "list"}

\* the args the callers pass
Args == {"", "ripgrep", " --locked\tripgrep  fd "}

\* what the operating system answers when asked to start a program: the process
\* starts and will exit with success or not, or the start fails
Launches ==
  {[launched |-> TRUE, success |-> b] : b \in BOOLEAN}
    \cup {[launched |-> FALSE, error |-> e] :
            e \in {"NotFound", "PermissionDenied", "IsADirectory"}}

\* fix_relative_path with a separator pushed between the two, as Path::join does
fix_relative_path_Joined(config_dir, command) ==
  IF starts_with(command, "./")
    THEN config_dir \o "/" \o SubSeq(command, 3, Len(command))
    ELSE command

\* fix_relative_path: config_dir and command concatenated when command starts
\* with ./
fix_relative_path(config_dir, command) ==
  IF starts_with(command, "./") THEN config_dir \o command ELSE command

\* char::is_whitespace, for the characters of the model
Whitespace == {" ", "\t", "\n"}

\* str::split_whitespace from character i on; cur is the token being read, acc
\* the tokens read
RECURSIVE SplitFrom(_, _, _, _)
SplitFrom(s, i, cur, acc) ==
  IF i > Len(s) THEN (IF cur = "" THEN acc ELSE Append(acc, cur))
  ELSE SplitFrom(s, i + 1,
                 IF CharAt(s, i) \in Whitespace THEN "" ELSE cur \o CharAt(s, i),
                 IF CharAt(s, i) \in Whitespace /\ cur # "" THEN Append(acc, cur) ELSE acc)

split_whitespace(s) == SplitFrom(s, 1, "", <<>>)

\* the match on name of make_command: the field, or the panic of the last arm
Field(self, name) ==
  CASE name = "version" -> Ok(Some(self.version))
    [] name = "install" -> Ok(self.install)
    [] name = "install_local" -> Ok(self.install_local)
    [] name = "remove" -> Ok(self.remove)
    [] name = "remove_local" -> Ok(self.remove_local)
    [] OTHER -> Panic("No such command")

\* Command::new(s.nth(0).unwrap()) and result.args(the rest)
NewCommand(s) ==
  IF s = <<>> THEN Panic("called Option::unwrap() on a None value")
  ELSE Ok(Some([program |-> Head(s), args |-> Tail(s)]))

\* the match on tmp of make_command
CommandOf(config_dir, tmp) ==
  IF tmp.tag = "Panic" THEN tmp
  ELSE IF tmp.val = None THEN Ok(None)
  ELSE NewCommand(split_whitespace(fix_relative_path(config_dir, tmp.val[1])))

make_command(self, name) == CommandOf(self.config_dir, Field(self, name))

\* command.args(args.split_whitespace()) and command.spawn(), on what
\* make_command(name).unwrap() gives
Spawn(command, args, launch) ==
  IF command.tag = "Panic" THEN command
  ELSE IF command.val = None THEN Panic("called Option::unwrap() on a None value")
  ELSE IF launch.launched
    THEN Ok([program |-> command.val[1].program,
             args |-> command.val[1].args \o split_whitespace(args)])
    ELSE Err("Couldn't execute command")

\* run_command with the args placed before those of the template
run_command_ArgsFirst(self, name, args, launch) ==
  IF make_command(self, name).tag = "Ok" /\ make_command(self, name).val # None
       /\ launch.launched
    THEN Ok([program |-> make_command(self, name).val[1].program,
             args |-> split_whitespace(args) \o make_command(self, name).val[1].args])
    ELSE Spawn(make_command(self, name), args, launch)

\* run_command: Ok of the child's process, an error, or a panic
run_command(self, name, args, launch) == Spawn(make_command(self, name), args, launch)

\* version_command.status().expect(..) and status.success(), on what
\* make_command("version").unwrap() gives
Status(command, launch) ==
  IF command.tag = "Panic" THEN command
  ELSE IF command.val = None THEN Panic("called Option::unwrap() on a None value")
  ELSE IF launch.launched THEN Ok(launch.success)
  ELSE Panic("Failed to run version command")

\* the match of has_command: an arm for version and for four of the optional
\* fields, false for every other name
has_command(self, name) ==
  CASE name = "version" -> TRUE
    [] name = "install" -> self.install # None
    [] name = "install_local" -> self.install_local # None
    [] name = "remove" -> self.remove # None
    [] name = "remove_local" -> self.remove_local # None
    [] OTHER -> FALSE

exists(self, launch) == Status(make_command(self, "version"), launch)

install(self, args, launch) == run_command(self, "install", args, launch)

uninstall(self, args, launch) == run_command(self, "uninstall", args, launch)

search(self, args, launch) == run_command(self, "search", args, launch)

version(self, launch) == run_command(self, "version", "", launch)

(***************************************************************************)
(* The calls on the PackageManager                                         *)
(***************************************************************************)
RunCommand ==
  /\ cret = NoCall
  /\ \E name \in CommandNames, args \in Args, launch \in Launches :
       /\ cret' = [op |-> "run_command", name |-> name, args |-> args, launch |-> launch,
                   out |-> run_command(pm, name, args, launch)]
       /\ UNCHANGED <<fs, ret, v, vret, pm, proc>>

Install ==
  /\ cret = NoCall
  /\ \E args \in Args, launch \in Launches :
       /\ cret' = [op |-> "install", args |-> args, launch |-> launch,
                   out |-> install(pm, args, launch)]
       /\ UNCHANGED <<fs, ret, v, vret, pm, proc>>

Uninstall ==
  /\ cret = NoCall
  /\ \E args \in Args, launch \in Launches :
       /\ cret' = [op |-> "uninstall", args |-> args, launch |-> launch,
                   out |-> uninstall(pm, args, launch)]
       /\ UNCHANGED <<fs, ret, v, vret, pm, proc>>

Search ==
  /\ cret = NoCall
  /\ \E args \in Args, launch \in Launches :
       /\ cret' = [op |-> "search", args |-> args, launch |-> launch,
                   out |-> search(pm, args, launch)]
       /\ UNCHANGED <<fs, ret, v, vret, pm, proc>>

RunVersion ==
  /\ cret = NoCall
  /\ \E launch \in Launches :
       /\ cret' = [op |-> "version", args |-> "", launch |-> launch,
                   out |-> version(pm, launch)]
       /\ UNCHANGED <<fs, ret, v, vret, pm, proc>>

Exists ==
  /\ cret = NoCall
  /\ \E launch \in Launches :
       /\ cret' = [op |-> "exists", launch |-> launch, out |-> exists(pm, launch)]
       /\ UNCHANGED <<fs, ret, v, vret, pm, proc>>

\* make_command asked to resolve a name
MakeCommand ==
  /\ cret = NoCall
  /\ \E name \in CommandNames :
       /\ cret' = [op |-> "make_command", name |-> name, out |-> make_command(pm, name)]
       /\ UNCHANGED <<fs, ret, v, vret, pm, proc>>

\* has_command asked about a name
HasCommand ==
  /\ cret = NoCall
  /\ \E name \in CommandNames :
       /\ cret' = [op |-> "has_command", name |-> name, out |-> has_command(pm, name)]
       /\ UNCHANGED <<fs, ret, v, vret, pm, proc>>

\* fix_relative_path on the descriptor's directory and a command text
FixRelativePath ==
  /\ cret = NoCall
  /\ \E command \in VersionTemplates \cup {" ", "cargo install", "./cargo/install.sh -y"} :
       /\ cret' = [op |-> "fix_relative_path", config_dir |-> pm.config_dir,
                   command |-> command, out |-> fix_relative_path(pm.config_dir, command)]
       /\ UNCHANGED <<fs, ret, v, vret, pm, proc>>

CommandInit ==
  /\ fs = NoFiles
  /\ ret = NoCall
  /\ v = NoVersions
  /\ vret = NoCall
  /\ pm \in Managers
  /\ cret = NoCall
  /\ proc = NoProcess

CommandNext ==
  \/ RunCommand
  \/ Install
  \/ Uninstall
  \/ Search
  \/ RunVersion
  \/ Exists
  \/ MakeCommand
  \/ HasCommand
  \/ FixRelativePath

CommandSpec == CommandInit /\ [][CommandNext]_vars

(***************************************************************************)
(* The launched process in time: exists and run_command followed from the  *)
(* start of the process to its exit                                        *)
(***************************************************************************)
\* what the system answers when asked to start a program; how the process
\* exits is known only when it does
Starts ==
  {[launched |-> TRUE]}
    \cup {[launched |-> FALSE, error |-> e] :
            e \in {"NotFound", "PermissionDenied", "IsADirectory"}}

\* the process of a Command that started, and the same after its exit
Running(child) == [state |-> "running", child |-> child]

Exited(child, success) == [state |-> "exited", child |-> child, success |-> success]

\* exists as far as the wait inside Command::status: the version command is made
\* and started, and the call stays in status() while the process runs; a
\* command that does not start ends the call at once
ExistsLaunch ==
  /\ cret = NoCall
  /\ \E launch \in Starts :
       IF launch.launched /\ make_command(pm, "version").tag = "Ok"
         THEN /\ proc' = Running(make_command(pm, "version").val[1])
              /\ cret' = [op |-> "exists", pc |-> "status", launch |-> launch]
         ELSE /\ proc' = proc
              /\ cret' = [op |-> "exists", pc |-> "returned", launch |-> launch,
                          out |-> Status(make_command(pm, "version"), launch)]
  /\ UNCHANGED <<fs, ret, v, vret, pm>>

\* the launched process ends, of itself, with a status of its own
ProcessExit ==
  /\ proc.state = "running"
  /\ \E success \in BOOLEAN : proc' = Exited(proc.child, success)
  /\ UNCHANGED <<fs, ret, v, vret, pm, cret>>

\* exists answering true as soon as the process has started
ExistsReturn_SpawnOnly ==
  /\ cret.op = "exists"
  /\ cret.pc = "status"
  /\ proc.state \in {"running", "exited"}
  /\ cret' = [op |-> "exists", pc |-> "returned", launch |-> cret.launch, out |-> Ok(TRUE)]
  /\ UNCHANGED <<fs, ret, v, vret, pm, proc>>

\* status() returns the exit status once the process has ended, and exists
\* returns status.success()
ExistsReturn ==
  /\ cret.op = "exists"
  /\ cret.pc = "status"
  /\ proc.state = "exited"
  /\ cret' = [op |-> "exists", pc |-> "returned", launch |-> cret.launch,
              out |-> Status(make_command(pm, "version"),
                             [launched |-> TRUE, success |-> proc.success])]
  /\ UNCHANGED <<fs, ret, v, vret, pm, proc>>

\* run_command waiting for the process it started, as Command::status does
RunCommandSpawn_Waits ==
  /\ cret = NoCall
  /\ \E name \in CommandNames, args \in Args, launch \in Starts, success \in BOOLEAN :
       /\ cret' = [op |-> "run_command", pc |-> "returned", name |-> name,
                   args |-> args, launch |-> launch,
                   out |-> run_command(pm, name, args, launch)]
       /\ proc' = IF cret'.out.tag = "Ok" THEN Exited(cret'.out.val, success) ELSE proc
  /\ UNCHANGED <<fs, ret, v, vret, pm>>

\* run_command: spawn() starts the process and the call returns its Child
RunCommandSpawn ==
  /\ cret = NoCall
  /\ \E name \in CommandNames, args \in Args, launch \in Starts :
       /\ cret' = [op |-> "run_command", pc |-> "returned", name |-> name,
                   args |-> args, launch |-> launch,
                   out |-> run_command(pm, name, args, launch)]
       /\ proc' = IF cret'.out.tag = "Ok" THEN Running(cret'.out.val) ELSE proc
  /\ UNCHANGED <<fs, ret, v, vret, pm>>

ProcessInit == CommandInit

ProcessNext == ExistsLaunch \/ ExistsReturn \/ RunCommandSpawn \/ ProcessExit

ProcessSpec == ProcessInit /\ [][ProcessNext]_vars

(***************************************************************************)
(* What the claims speak of, read off the file system                      *)
(***************************************************************************)
\* directory d holds a valid, loadable n.toml
Loadable(d, n) == fs[d].readable /\ fs[d].files[n] \in {"full", "minimal"}

\* the descriptor of the loadable file n.toml of directory d: every field as the
\* file of that directory gives it
DescriptorIn(d, n) ==
  LET table == TomlTable(fs[d].files[n], d, n)
      field(k) == IF k \in DOMAIN table THEN Some(table[k].str) ELSE None
  IN  [name |-> n,
       version |-> table["version"].str,
       config_dir |-> d,
       install |-> field("install"),
       install_local |-> field("install_local"),
       remove |-> field("remove"),
       remove_local |-> field("remove_local"),
       search |-> field("search")]

\* the specifier lets the name through
Admitted(names, n) ==
  \/ names.variant = "Empty"
  \/ names.variant = "Excludes" /\ n \notin names.set
  \/ names.variant = "Includes" /\ n \in names.set

Returned(op) == ret.op = op /\ ret.out.tag = "Ok"

Elements(seq) == {seq[i] : i \in DOMAIN seq}

NamesOf(seq) == {seq[i].name : i \in DOMAIN seq}

\* the positions of the list whose directory holds a loadable n.toml
Defining(directories, n) == {i \in DOMAIN directories : Loadable(directories[i], n)}

First(S) == CHOOSE i \in S : \A j \in S : i <= j

\* the number of .toml entries of directory d
TomlEntries(d) ==
  {n \in ManagerNames : fs[d].readable /\ fs[d].files[n] \notin {"absent", "nottoml"}}

(***************************************************************************)
(* Claims on the registry loader                                           *)
(***************************************************************************)
\* C1: every descriptor of the registry read_config_dirs returns is,
\* field for field, the one of the earliest directory of the list that holds a
\* loadable file of that name, and every admitted name some directory defines is
\* held so; the orders of enumeration do not appear in the statement.
C1_FirstDirectoryWins ==
  Returned("read_config_dirs") =>
    /\ \A m \in Elements(ret.out.val) :
         /\ Defining(ret.directories, m.name) # {}
         /\ m = DescriptorIn(ret.directories[First(Defining(ret.directories, m.name))],
                             m.name)
    /\ \A n \in ManagerNames :
         (Defining(ret.directories, n) # {} /\ Admitted(ret.exceptions, n)) =>
           DescriptorIn(ret.directories[First(Defining(ret.directories, n))], n)
             \in Elements(ret.out.val)

\* C1 witness: two different directories, each with two .toml entries, both define
\* cargo, and the registry holds the first one's.
C1_Witness ==
  /\ Returned("read_config_dirs")
  /\ Len(ret.directories) = 2
  /\ ret.directories[1] # ret.directories[2]
  /\ \A i \in 1..2 :
       Loadable(ret.directories[i], "cargo") /\ TomlEntries(ret.directories[i]) = ManagerNames
  /\ DescriptorIn(ret.directories[1], "cargo") \in Elements(ret.out.val)

\* C2: no two entries of the registry read_config_dirs returns share a name, and
\* the names held are exactly those some listed directory's scan produced (a
\* loadable file the specifier admits).
C2_OnePerName ==
  Returned("read_config_dirs") =>
    /\ \A i, j \in DOMAIN ret.out.val :
         ret.out.val[i].name = ret.out.val[j].name => i = j
    /\ NamesOf(ret.out.val) =
         {n \in ManagerNames : Defining(ret.directories, n) # {}
                                 /\ Admitted(ret.exceptions, n)}

\* C2 witness: a list that names twice a directory defining both names; the
\* registry holds two entries.
C2_Witness ==
  /\ Returned("read_config_dirs")
  /\ Len(ret.directories) = 2
  /\ ret.directories[1] = ret.directories[2]
  /\ \A n \in ManagerNames : Loadable(ret.directories[1], n)
  /\ Len(ret.out.val) = 2

\* C3: for every directory and every name set S, get_managers under Excludes(S)
\* returns no descriptor named in S, and it returns the descriptor of every
\* loadable file of the directory named outside S.
C3_ExcludesFilter ==
  (ret.op = "get_managers" /\ ret.names.variant = "Excludes") =>
    /\ ret.out.tag = "Ok" => NamesOf(ret.out.val) \cap ret.names.set = {}
    /\ \A n \in ManagerNames \ ret.names.set :
         Loadable(ret.directory, n) =>
           /\ ret.out.tag = "Ok"
           /\ DescriptorIn(ret.directory, n) \in Elements(ret.out.val)

\* C3, of the calls that return: the result holds exactly the descriptors of the
\* loadable files named outside S.
C3_WhenReturned ==
  (Returned("get_managers") /\ ret.names.variant = "Excludes") =>
    Elements(ret.out.val) =
      {DescriptorIn(ret.directory, n) :
         n \in {x \in ManagerNames \ ret.names.set : Loadable(ret.directory, x)}}

\* C4: for every directory and every name set S, get_managers under Includes(S)
\* returns the descriptor of every loadable file whose stem is in S and nothing
\* else; read_config_dirs under Includes(S) returns only managers named in S, and
\* each one of S that some listed directory defines.
C4_IncludesFilter ==
  /\ (ret.op = "get_managers" /\ ret.names.variant = "Includes") =>
       /\ ret.out.tag = "Ok" =>
            Elements(ret.out.val) \subseteq
              {DescriptorIn(ret.directory, n) :
                 n \in {x \in ret.names.set : Loadable(ret.directory, x)}}
       /\ \A n \in ret.names.set :
            Loadable(ret.directory, n) =>
              /\ ret.out.tag = "Ok"
              /\ DescriptorIn(ret.directory, n) \in Elements(ret.out.val)
  /\ (ret.op = "read_config_dirs" /\ ret.exceptions.variant = "Includes") =>
       /\ ret.out.tag = "Ok" => NamesOf(ret.out.val) \subseteq ret.exceptions.set
       /\ \A n \in ret.exceptions.set :
            Defining(ret.directories, n) # {} =>
              ret.out.tag = "Ok" /\ n \in NamesOf(ret.out.val)

\* C4, of the calls that return: get_managers holds exactly the descriptors of the
\* loadable files named in S, read_config_dirs exactly the names of S some listed
\* directory defines.
C4_WhenReturned ==
  /\ (Returned("get_managers") /\ ret.names.variant = "Includes") =>
       Elements(ret.out.val) =
         {DescriptorIn(ret.directory, n) :
            n \in {x \in ret.names.set : Loadable(ret.directory, x)}}
  /\ (Returned("read_config_dirs") /\ ret.exceptions.variant = "Includes") =>
       NamesOf(ret.out.val) =
         {n \in ret.exceptions.set : Defining(ret.directories, n) # {}}

\* C5: when a listed directory cannot be enumerated, read_config_dirs returns an
\* error to its caller: it neither panics nor returns a registry.
C5_MergeReportsDirectoryError ==
  (ret.op = "read_config_dirs"
     /\ \E i \in DOMAIN ret.directories : ~fs[ret.directories[i]].readable) =>
    ret.out.tag = "Err"

\* C6: when its directory cannot be enumerated, get_managers reports the failure:
\* it does not return Ok.
C6_ScanReportsDirectoryError ==
  (ret.op = "get_managers" /\ ~fs[ret.directory].readable) => ret.out.tag = "Err"

(***************************************************************************)
(* What the claims speak of, read off the version strings                  *)
(***************************************************************************)
\* the first position at or after i where text holds character c, Len(text) + 1
\* when there is none
RECURSIVE FirstIndexOf(_, _, _)
FirstIndexOf(text, c, i) ==
  IF i > Len(text) \/ SubSeq(text, i, i) = c THEN i ELSE FirstIndexOf(text, c, i + 1)

\* the parts of text between the occurrences of character c
RECURSIVE SplitOn(_, _)
SplitOn(text, c) ==
  IF FirstIndexOf(text, c, 1) > Len(text) THEN <<text>>
  ELSE <<SubSeq(text, 1, FirstIndexOf(text, c, 1) - 1)>>
         \o SplitOn(SubSeq(text, FirstIndexOf(text, c, 1) + 1, Len(text)), c)

AllIn(text, class) == \A i \in 1..Len(text) : SubSeq(text, i, i) \in class

\* a non-empty run of digits
Numeric(part) == Len(part) > 0 /\ AllIn(part, Digits)

\* dot-separated non-empty tokens of letters, digits and hyphens
Labels(text) ==
  \A i \in DOMAIN SplitOn(text, ".") :
    Len(SplitOn(text, ".")[i]) > 0 /\ AllIn(SplitOn(text, ".")[i], LabelChars)

\* the grammar MAJOR.MINOR.PATCH[-prerelease][+buildmetadata], read by splitting:
\* the build metadata follows the first +, the prerelease the first - before
\* it, and what is left is three numeric groups between dots
SemVerGrammar(text) ==
  LET plus == FirstIndexOf(text, "+", 1)
      main == SubSeq(text, 1, plus - 1)
      dash == FirstIndexOf(main, "-", 1)
      core == SplitOn(SubSeq(main, 1, dash - 1), ".")
  IN  /\ Len(core) = 3
      /\ \A i \in 1..3 : Numeric(core[i])
      /\ dash <= Len(main) => Labels(SubSeq(main, dash + 1, Len(main)))
      /\ plus <= Len(text) => Labels(SubSeq(text, plus + 1, Len(text)))

\* the version strings of the model that match the grammar, computed once
Conforming == {text \in Representations : SemVerGrammar(text)}

\* the MAJOR.MINOR.PATCH part of a conforming string: what precedes the first
\* - or +
CoreOf(text) ==
  SubSeq(text, 1, FirstIndexOf(SubSeq(text, 1, FirstIndexOf(text, "+", 1) - 1), "-", 1) - 1)

CoreTable == [text \in Representations |-> CoreOf(text)]

(***************************************************************************)
(* Claims on Version                                                       *)
(***************************************************************************)
\* C7: two Versions that are both semantic compare equal exactly when their
\* MAJOR, MINOR and PATCH groups are equal, whatever their prerelease and build
\* labels.
C7_SemanticEqualityByCore ==
  (vret.op = "eq" /\ v[1].semantic /\ v[2].semantic) =>
    vret.out = Ok(CoreTable[v[1].representation] = CoreTable[v[2].representation])

\* C8: two Versions whose flags differ compare unequal, whatever their strings;
\* two non-semantic Versions compare equal exactly when their strings are the same.
C8_NonSemanticEquality ==
  (vret.op = "eq" /\ ~(v[1].semantic /\ v[2].semantic)) =>
    IF v[1].semantic # v[2].semantic
      THEN vret.out = Ok(FALSE)
      ELSE vret.out = Ok(v[1].representation = v[2].representation)

\* C8 witness: two Versions of the same semantic string, one forced to
\* non-semantic, have been compared and found unequal.
C8_Witness ==
  /\ vret.op = "eq"
  /\ v[1].representation = v[2].representation
  /\ v[1].representation \in Conforming
  /\ v[1].semantic /\ ~v[2].semantic
  /\ vret.out = Ok(FALSE)

ConformingCandidates == {text \in Candidates : SemVerGrammar(text)}

OfKind(d, kind) == {n \in ManagerNames : fs[d].readable /\ fs[d].files[n] = kind}

\* C12: a file with every key but version makes from_file return an error; it
\* is absent from what get_managers returns for its directory, every valid
\* sibling is returned, and when the scan does not return it is another file,
\* one with a value that is not a string, that stopped it.
C12_MissingVersionSkipped ==
  /\ (ret.op = "from_file" /\ KindAt(ret.path) = "noversion") => ret.out.tag = "Err"
  /\ ret.op = "get_managers" =>
       \A n \in OfKind(ret.directory, "noversion") :
         /\ ret.out.tag = "Ok" =>
              /\ n \notin NamesOf(ret.out.val)
              /\ \A m \in ManagerNames :
                   (Loadable(ret.directory, m) /\ Admitted(ret.names, m)) =>
                     DescriptorIn(ret.directory, m) \in Elements(ret.out.val)
         /\ ret.out.tag # "Ok" =>
              \E m \in OfKind(ret.directory, "nonstring") \ {n} : Admitted(ret.names, m)

\* C12 witness: cargo.toml lacks version, npm.toml is valid, and the scan with
\* the Empty specifier has returned npm alone.
C12_Witness ==
  /\ Returned("get_managers")
  /\ ret.names = Empty
  /\ fs[ret.directory].files = [cargo |-> "noversion", npm |-> "full"]
  /\ NamesOf(ret.out.val) = {"npm"}

\* the kinds of file that are malformed or incomplete
BadKinds == {"unreadable", "garbage", "noversion", "nonstring"}

\* C13: loading a file that is unreadable, unparsable, without version or with a
\* value that is not a string yields an error; get_managers omits the file,
\* goes on with the other files and returns every loadable one: the file never
\* aborts the scan.
C13_BadFileNeverAbortsScan ==
  /\ (ret.op = "from_file" /\ KindAt(ret.path) \in BadKinds) => ret.out.tag = "Err"
  /\ (ret.op = "get_managers" /\ fs[ret.directory].readable) =>
       /\ ret.out.tag = "Ok"
       /\ Elements(ret.out.val) =
            {DescriptorIn(ret.directory, n) :
               n \in {x \in ManagerNames :
                        Loadable(ret.directory, x) /\ Admitted(ret.names, x)}}

\* C13, of the files that are unreadable, unparsable or without version: each
\* yields an error, and a directory whose bad files are of these kinds is
\* scanned to the end.
C13_OtherKindsSwallowed ==
  /\ (ret.op = "from_file" /\ KindAt(ret.path) \in BadKinds \ {"nonstring"})
       => ret.out.tag = "Err"
  /\ (ret.op = "get_managers" /\ fs[ret.directory].readable
        /\ OfKind(ret.directory, "nonstring") = {}) =>
       /\ ret.out.tag = "Ok"
       /\ Elements(ret.out.val) =
            {DescriptorIn(ret.directory, n) :
               n \in {x \in ManagerNames :
                        Loadable(ret.directory, x) /\ Admitted(ret.names, x)}}

(***************************************************************************)
(* Claims on the commands                                                  *)
(***************************************************************************)
\* the starts of the maximal runs of s without white space
WordStarts(s) ==
  {a \in 1..Len(s) :
     CharAt(s, a) \notin Whitespace /\ (a = 1 \/ CharAt(s, a - 1) \in Whitespace)}

\* the end of the run that starts at a
WordEnd(s, a) ==
  CHOOSE b \in a..Len(s) :
    /\ \A i \in a..b : CharAt(s, i) \notin Whitespace
    /\ b = Len(s) \/ CharAt(s, b + 1) \in Whitespace

\* the start of the k-th run
NthStart(s, k) ==
  CHOOSE a \in WordStarts(s) : Cardinality({x \in WordStarts(s) : x < a}) = k - 1

\* the white-space-separated tokens of s, in order
Words(s) ==
  [k \in 1..Cardinality(WordStarts(s)) |->
     SubSeq(s, NthStart(s, k), WordEnd(s, NthStart(s, k)))]

\* the template the descriptor holds for a slot, None when it holds none
TemplateOf(self, slot) == IF slot = "version" THEN Some(self.version) ELSE self[slot]

\* the slot holds a template that names a program
HasProgram(self, slot) ==
  /\ TemplateOf(self, slot) # None
  /\ WordStarts(TemplateOf(self, slot)[1]) # {}

\* the optional slots
OptionalSlots == CommandKeys \ {"version"}

\* C14: exists() on a descriptor whose version command cannot be launched returns
\* false; it raises no error and does not panic.
C14_ExistsFalseOnLaunchFailure ==
  (cret.op = "exists" /\ ~cret.launch.launched) => cret.out = Ok(FALSE)

\* C15: run_command on a known slot whose program cannot be launched returns an
\* error: it does not panic and returns no process handle.
C15_LaunchFailureIsError ==
  (cret.op = "run_command" /\ cret.name \in CommandKeys /\ HasProgram(pm, cret.name)
     /\ ~cret.launch.launched) =>
    cret.out.tag = "Err"

\* C15, of the names make_command matches: a launch failure is an error.
C15_OfMatchedNames ==
  (cret.op = "run_command" /\ cret.name \in CommandKeys \ {"search"}
     /\ HasProgram(pm, cret.name) /\ ~cret.launch.launched) =>
    cret.out = Err("Couldn't execute command")

\* C16: run_command with a name that is none of version, install, install_local,
\* remove, remove_local, search returns an error that is not the one of a failed
\* launch; it does not panic.
C16_UnknownNameIsError ==
  (cret.op = "run_command" /\ cret.name \notin CommandKeys) =>
    cret.out.tag = "Err" /\ cret.out # Err("Couldn't execute command")

\* C17: for an optional slot without a template make_command yields None and
\* run_command reports a condition to its caller without a panic; make_command
\* on version never yields None.
C17_AbsentTemplateReported ==
  /\ (cret.op = "make_command" /\ cret.name \in OptionalSlots
        /\ TemplateOf(pm, cret.name) = None) => cret.out = Ok(None)
  /\ (cret.op = "run_command" /\ cret.name \in OptionalSlots
        /\ TemplateOf(pm, cret.name) = None) => cret.out.tag = "Err"
  /\ (cret.op = "make_command" /\ cret.name = "version") => cret.out # Ok(None)

\* the slot each wrapper stands for
SlotOf(op) ==
  CASE op = "install" -> "install"
    [] op = "uninstall" -> "remove"
    [] op = "search" -> "search"
    [] op = "version" -> "version"

\* the text begins with the two characters ./
Relative(text) == Len(text) >= 2 /\ SubSeq(text, 1, 2) = "./"

\* the text a template resolves to: the directory and the template written one
\* after the other when the template starts with ./
Resolved(self, slot) ==
  IF Relative(TemplateOf(self, slot)[1])
    THEN self.config_dir \o TemplateOf(self, slot)[1]
    ELSE TemplateOf(self, slot)[1]

\* the process a slot's template and the caller's args describe
ProcessOf(self, slot, args) ==
  [program |-> Words(Resolved(self, slot))[1],
   args |-> Tail(Words(Resolved(self, slot))) \o Words(args)]

\* C18: install, uninstall, search and version run the template of the install,
\* remove, search and version slot: the outcome is that of run_command on the
\* slot with the same args, and a launch that succeeds starts the slot's program.
C18_WrappersRunTheirSlot ==
  cret.op \in {"install", "uninstall", "search", "version"} =>
    /\ cret.out = run_command(pm, SlotOf(cret.op), cret.args, cret.launch)
    /\ (HasProgram(pm, SlotOf(cret.op)) /\ cret.launch.launched) =>
         cret.out = Ok(ProcessOf(pm, SlotOf(cret.op), cret.args))

\* C18, of install and version: each runs its slot's template as run_command does.
C18_OfInstallAndVersion ==
  cret.op \in {"install", "version"} =>
    /\ cret.out = run_command(pm, SlotOf(cret.op), cret.args, cret.launch)
    /\ (HasProgram(pm, SlotOf(cret.op)) /\ cret.launch.launched) =>
         cret.out = Ok(ProcessOf(pm, SlotOf(cret.op), cret.args))

\* C19: when the command starts with ./ the resolved text is config_dir followed
\* at once by the command, character for character; otherwise it is the command
\* itself, whatever config_dir is. make_command starts the first token of it.
C19_RelativePathConcatenated ==
  /\ cret.op = "fix_relative_path" =>
       IF Relative(cret.command)
         THEN /\ Len(cret.out) = Len(cret.config_dir) + Len(cret.command)
              /\ SubSeq(cret.out, 1, Len(cret.config_dir)) = cret.config_dir
              /\ SubSeq(cret.out, Len(cret.config_dir) + 1, Len(cret.out)) = cret.command
         ELSE cret.out = cret.command
  /\ (cret.op = "make_command" /\ cret.name = "version") =>
       /\ cret.out.tag = "Ok"
       /\ cret.out.val # None
       /\ cret.out.val[1].program =
            IF Relative(pm.version)
              THEN pm.config_dir \o Words(pm.version)[1]
              ELSE Words(pm.version)[1]

\* C19 witness: ./cargo/version.sh under /etc/upm has resolved to
\* /etc/upm./cargo/version.sh.
C19_Witness ==
  /\ cret.op = "fix_relative_path"
  /\ cret.config_dir = "/etc/upm"
  /\ cret.command = "./cargo/version.sh"
  /\ cret.out = "/etc/upm./cargo/version.sh"

\* C20: the process run_command builds has as program the first token of the
\* resolved text and as arguments the other tokens of it, in order, followed by
\* the tokens of the caller's args, in order.
C20_ProgramThenFixedThenCallerArgs ==
  (cret.op = "run_command" /\ cret.out.tag = "Ok") =>
    /\ HasProgram(pm, cret.name)
    /\ cret.out.val = ProcessOf(pm, cret.name, cret.args)

\* C20 witness: the template ./cargo/remove.sh -y and the args
\* " --locked<tab>ripgrep  fd " have given the program and -y, --locked, ripgrep, fd.
C20_Witness ==
  /\ cret.op = "run_command"
  /\ cret.name = "remove"
  /\ pm.remove = Some("./cargo/remove.sh -y")
  /\ pm.config_dir = "./test-files/"
  /\ cret.out = Ok([program |-> "./test-files/./cargo/remove.sh",
                    args |-> <<"-y", "--locked", "ripgrep", "fd">>])

(***************************************************************************)
(* Claims on the scan of one directory                                     *)
(***************************************************************************)
\* the managers of directory d whose n.toml loads
LoadableIn(d) == {n \in ManagerNames : Loadable(d, n)}

\* C23: whatever the specifier, the names get_managers returns are stems of
\* entries ending in ".toml"; with the Empty specifier the list returned holds
\* the descriptor of each such entry that loads, named after its stem, once,
\* and nothing else: an entry with another suffix gives nothing, even when its
\* content is a valid description.
C23_OnlyTomlEntries ==
  Returned("get_managers") =>
    /\ NamesOf(ret.out.val) \subseteq TomlEntries(ret.directory)
    /\ ret.names = Empty =>
         /\ Elements(ret.out.val) =
              {DescriptorIn(ret.directory, n) : n \in LoadableIn(ret.directory)}
         /\ Len(ret.out.val) = Cardinality(LoadableIn(ret.directory))

\* C23: cargo.txt holds a valid description and npm.toml loads; the scan with
\* the Empty specifier returns npm alone
C23_Witness ==
  /\ Returned("get_managers")
  /\ ret.names = Empty
  /\ fs[ret.directory].files = [cargo |-> "nottoml", npm |-> "full"]
  /\ from_file(join(ret.directory, "cargo.txt")).tag = "Ok"
  /\ Len(ret.out.val) = 1
  /\ ret.out.val[1].name = "npm"

(***************************************************************************)
(* Claims on the construction of a Version                                 *)
(***************************************************************************)
\* C24: after from_str(raw) and after set_representation(raw) the Version
\* holds raw itself and its flag is is_semantic(raw), whatever the Version held
\* before the call.
C24_RawStoredFlagRecomputed ==
  /\ vret.op = "from_str" =>
       /\ v[vret.self].representation = vret.representation
       /\ v[vret.self].semantic = is_semantic(vret.representation)
  /\ vret.op = "set_representation" =>
       /\ v[vret.self].representation = vret.val
       /\ v[vret.self].semantic = is_semantic(vret.val)

\* C24: a Version of a conforming string whose flag set_semantic forced to
\* false is given another conforming string and is semantic again
C24_Witness ==
  /\ vret.op = "set_representation"
  /\ ~vret.old.semantic
  /\ is_semantic(vret.old.representation)
  /\ is_semantic(vret.val)
  /\ vret.val # vret.old.representation
  /\ v[vret.self] = [representation |-> vret.val, semantic |-> TRUE]

\* C24: a Version that was semantic is given a string that does not conform
\* and is semantic no more
C24_WitnessFlagCleared ==
  /\ vret.op = "set_representation"
  /\ vret.old.semantic
  /\ v[vret.self].representation = vret.val
  /\ ~v[vret.self].semantic

(***************************************************************************)
(* Claims on has_command                                                   *)
(***************************************************************************)
\* C25: has_command(name) is true exactly when name is one of the six command
\* fields and that field holds a template, which version always does.
C25_HasCommandDecidesTemplate ==
  cret.op = "has_command" =>
    (cret.out <=> (cret.name = "version" \/
                   (cret.name \in OptionalSlots /\ pm[cret.name] # None)))

\* C25, of every name but search: there the answer is as the claim says.
C25_OfMatchedNames ==
  (cret.op = "has_command" /\ cret.name # "search") =>
    (cret.out <=> (cret.name = "version" \/
                   (cret.name \in OptionalSlots /\ pm[cret.name] # None)))

\* C25: a descriptor with a search template is asked has_command("search") and
\* answers false
C25_SearchTemplateDenied ==
  /\ cret.op = "has_command"
  /\ cret.name = "search"
  /\ pm.search # None
  /\ ~cret.out

(***************************************************************************)
(* Claims on the equality of Versions as a relation                        *)
(***************************************************************************)
\* the Versions the operations build from the strings of the model: those of
\* from_str, and those with the flag cleared by set_semantic(false)
VersionValues ==
  {from_str(r) : r \in Representations}
    \cup {set_semantic(from_str(r), FALSE).self : r \in Representations}

\* C26: on the Versions of every reachable state, == is reflexive, symmetric
\* and transitive, and never panics; the third Version of the transitivity is
\* any Version the operations can build.
C26_EqualityIsEquivalence ==
  \A a \in Slots, b \in Slots :
    /\ v[a] \in VersionValues
    /\ eq(v[a], v[a]) = Ok(TRUE)
    /\ eq(v[a], v[b]).tag = "Ok"
    /\ eq(v[a], v[b]) = eq(v[b], v[a])
    /\ \A c \in VersionValues :
         /\ (eq(v[a], v[b]) = Ok(TRUE) /\ eq(v[b], c) = Ok(TRUE)) => eq(v[a], c) = Ok(TRUE)
         /\ (eq(v[a], c) = Ok(TRUE) /\ eq(c, v[b]) = Ok(TRUE)) => eq(v[a], v[b]) = Ok(TRUE)

\* C26: two Versions of one conforming string, each with its flag cleared by
\* set_semantic(false), have been compared and found equal
C26_Witness ==
  /\ vret.op = "eq"
  /\ vret.out = Ok(TRUE)
  /\ is_semantic(v[1].representation)
  /\ ~v[1].semantic /\ ~v[2].semantic

\* C26: a semantic Version with a label and a Version of its core string with
\* the flag cleared have been compared and found unequal
C26_WitnessMixed ==
  /\ vret.op = "eq"
  /\ vret.out = Ok(FALSE)
  /\ v[1] = [representation |-> "1.2.3-rc1", semantic |-> TRUE]
  /\ v[2] = [representation |-> "1.2.3", semantic |-> FALSE]

(***************************************************************************)
(* Claims on the life of the launched process                              *)
(***************************************************************************)
\* C21: when the version command has started, exists has returned only in
\* states where the process has ended, and what it returned is whether the
\* process exited with success; while the process runs the call is still
\* inside status().
C21_ExistsReturnsAfterExit ==
  /\ (cret.op = "exists" /\ cret.pc = "returned" /\ cret.launch.launched) =>
       /\ proc.state = "exited"
       /\ cret.out = Ok(proc.success)
  /\ (cret.op = "exists" /\ proc.state = "running") => cret.pc = "status"

\* C21: the version command ran, exited with a failure status, and exists
\* then returned false
C21_Witness ==
  /\ cret.op = "exists"
  /\ cret.pc = "returned"
  /\ proc = Exited(make_command(pm, "version").val[1], FALSE)
  /\ cret.out = Ok(FALSE)

\* C21: the version command ran, exited with success, and exists then
\* returned true
C21_WitnessSuccess ==
  /\ cret.op = "exists"
  /\ cret.pc = "returned"
  /\ proc.state = "exited"
  /\ proc.success
  /\ cret.out = Ok(TRUE)

\* C22: the step in which run_command returns a handle leaves the process of
\* that handle running; after the return the call record never changes and the
\* only thing that happens to the process is its own exit.
C22_ReturnsHandleWhileRunning ==
  [][/\ (cret = NoCall /\ cret'.op = "run_command" /\ cret'.out.tag = "Ok") =>
          proc' = Running(cret'.out.val)
     /\ cret.op = "run_command" =>
          /\ cret' = cret
          /\ proc' # proc =>
               /\ proc.state = "running"
               /\ proc'.state = "exited"
               /\ proc'.child = proc.child]_vars

\* C22: run_command has returned the handle of a process that is still running
C22_Witness ==
  /\ cret.op = "run_command"
  /\ cret.out.tag = "Ok"
  /\ proc = Running(cret.out.val)

\* C22: the process run_command started has since ended, of itself
C22_WitnessExited ==
  /\ cret.op = "run_command"
  /\ cret.out.tag = "Ok"
  /\ proc.state = "exited"
  /\ proc.child = cret.out.val

====
